---- MODULE Spec2Model ----
(***************************************************************************)
(* RPC call registration, dispatch and correlation (randrewy/Rpc).         *)
(*                                                                         *)
(* The core is the RpcPacket variant of the library: RpcInterface and      *)
(* RpcCall of src/unnamed/part_000.  The customization points are the ones *)
(* of src/example.cpp (lines 1-131): Payload over std::any, sendRpcPacket  *)
(* and onResultReturned over a table of promises, and the dummyQueue.  The *)
(* receive loop is the one of the README's Short Example, which catches    *)
(* the failure of each dispatch.                                           *)
(*                                                                         *)
(* Two endpoints of the same interface type are constructed field by       *)
(* field, then bound, invoked and fed packets in any order.                *)
(***************************************************************************)
EXTENDS Integers, Sequences, FiniteSets, TLC

VARIABLES
    callHandlers,     \* [endpoint -> Seq(method)]: RpcInterface::callHandlers
    resultHandlers,   \* [endpoint -> [functionId -> return type]]
    functionId,       \* [endpoint -> [method -> id]]: RpcCall::functionId
    remoteCallback,   \* [endpoint -> [method -> handler]]: RpcCall::remoteCallback
    callIdCounter,    \* [endpoint -> uint32]
    instanceId,       \* [endpoint -> uint16]
    promises,         \* [endpoint -> [callId -> std::any]]: ExampleInterface::promises
    futures,          \* [endpoint -> [callId -> future]]: the futures callers hold
    dummyQueue,       \* [instance id -> Seq(packet)]: sent, not yet taken by a loop
    origin,           \* history: for every queued packet, the call it comes from
    injected,         \* number of packets the transport made up so far
    hooked,           \* history: [endpoint -> [callId -> calls of onResultReturned]]
    last,             \* what the last dispatch did (handlers run, packets sent)
    wideCounter,      \* callIdCounter of one interface object at its full width
    wideOutstanding,  \* the callIds of its calls with a result, sent and unanswered
    wideMinted,       \* history: the values getNextCallId returned, in order
    threads           \* two threads inside getNextCallId of that object

objectVars == <<callHandlers, resultHandlers, functionId, remoteCallback,
                callIdCounter, instanceId, promises, futures, dummyQueue, origin,
                injected, hooked, last>>

wideVars == <<wideCounter, wideOutstanding, wideMinted, threads>>

vars == <<callHandlers, resultHandlers, functionId, remoteCallback, callIdCounter,
          instanceId, promises, futures, dummyQueue, origin, injected, hooked,
          last, wideCounter, wideOutstanding, wideMinted, threads>>

-----------------------------------------------------------------------------
(* Bounds of the model *)

\* What the drivers do in one run: invocations (this caps the callIdCounters),
\* methods with a bound handler, and packets the transport makes up, together.
MaxOps == 3

\* Invocations in one run of the interface object whose counter is kept at
\* full width.
MaxWideCalls == 4

\* Invocations of square in one run of the exchange in both directions.
MaxLiveCalls == 3

-----------------------------------------------------------------------------
(* Integer widths *)

\* FunctionId is uint16_t.
FunctionIdWidth == 65536

\* CallId is uint32_t: two halves of 16 bits each, hi and lo.
CallIdLimb == 65536

-----------------------------------------------------------------------------
(* The interface type and its inputs *)

\* The ids the drivers give the endpoints, and loop over.
senderId == 0

receiverId == 1

Endpoints == {"sender", "receiver"}

Peer(e) == IF e = "sender" THEN "receiver" ELSE "sender"

\* The id the driver gives an endpoint by setInstanceId.
DriverId(e) == IF e = "sender" THEN senderId ELSE receiverId

InstanceIds == {senderId, receiverId}

\* The Rpc fields in declaration order.  The first five are ExampleInterface;
\* isOdd is one more method with a result, of another return type, so that
\* calls of two different methods can be outstanding at once.
ExampleInterface ==
    << [name |-> "addAccount",   args |-> <<"int", "string", "double">>, ret |-> "void"],
       [name |-> "addPhonebook", args |-> <<"map">>,                    ret |-> "void"],
       [name |-> "notifyOne",    args |-> <<>>,                         ret |-> "void"],
       [name |-> "notifyTwo",    args |-> <<>>,                         ret |-> "void"],
       [name |-> "square",       args |-> <<"int">>,                    ret |-> "int"],
       [name |-> "isOdd",        args |-> <<"int">>,                    ret |-> "bool"] >>

NumDecl == Len(ExampleInterface)

Methods == 1..NumDecl

\* The methods the drivers call and bind: one of each kind (addPhonebook is
\* handled as addAccount, notifyOne as notifyTwo).
Used == {1, 4, 5, 6}

ReturnType(m) == ExampleInterface[m].ret

\* ArgsTuple<Args...>: the tuple type of a method's arguments.
ArgsTuple(m) == ExampleInterface[m].args

\* Argument lists the callers pass (values are coded as small integers).
ArgLists(m) ==
    CASE m = 1 -> {<<1, 7, 100>>, <<2, 7, 100>>}
      [] m = 2 -> {<<8>>}
      [] m = 3 -> {<<>>}
      [] m = 4 -> {<<>>}
      [] m = 5 -> {<<5>>}
      [] m = 6 -> {<<3>>}

\* An empty std::function.
NoCallback == "empty"

\* The handlers a receiver binds.
Handlers(m) ==
    CASE m = 5 -> {"square", "twice"}
      [] m = 6 -> {"odd"}
      [] OTHER -> {"print"}

\* What a handler returns (0 for the handlers of void methods).
Apply(h, a) ==
    CASE h = "square" -> a[1] * a[1]
      [] h = "twice"  -> a[1] + a[1]
      [] h = "odd"    -> a[1] % 2
      [] OTHER        -> 0

-----------------------------------------------------------------------------
(* Payload: std::any holding a tuple *)

\* A payload that keeps the types and loses the values.
Serialize_TypesOnly(shape, data) == [shape |-> shape, data |-> [i \in DOMAIN data |-> 0]]

\* Payload::serialize: the tuple of the decayed argument types and the values.
Serialize(shape, data) == [shape |-> shape, data |-> data]

\* A deserialize that hands out a default-constructed tuple.
Deserialize_Default(payload, tuple) ==
    IF payload.shape = tuple
    THEN [ok |-> TRUE, value |-> [i \in DOMAIN payload.data |-> 0]]
    ELSE [ok |-> FALSE, value |-> <<>>]

\* Payload::deserialize<Tuple>: any_cast, which throws when the types differ.
Deserialize(payload, tuple) ==
    IF payload.shape = tuple
    THEN [ok |-> TRUE, value |-> payload.data]
    ELSE [ok |-> FALSE, value |-> <<>>]

-----------------------------------------------------------------------------
(* Packets *)

RpcPacket(iid, fid, cid, ctype, payload) ==
    [instanceId |-> iid, functionId |-> fid, callId |-> cid,
     callType |-> ctype, payload |-> payload]

NoPacket == RpcPacket(0, 0, 0, "none", Serialize(<<>>, <<>>))

\* History of a packet: the endpoint that sent it and the invocation it comes
\* from (who called which method with which arguments, under which call id);
\* for a Response also the method whose handler ran and that handler.
Origin(by, caller, m, a, callId, served, h) ==
    [by |-> by, caller |-> caller, method |-> m, args |-> a, call |-> callId,
     served |-> served, handler |-> h]

Forged == Origin("transport", "transport", 0, <<>>, 0, 0, "-")

-----------------------------------------------------------------------------
(* Finite maps *)

EmptyMap == [k \in {} |-> 0]

Put(f, k, v) == [x \in (DOMAIN f) \cup {k} |-> IF x = k THEN v ELSE f[x]]

-----------------------------------------------------------------------------
(* The transport of the example: promises, futures and the queue *)

\* A default-constructed std::any, as promises[callId] inserts for a new key.
EmptyAny == [type |-> "empty", held |-> FALSE, satisfied |-> FALSE]

\* std::any holding shared_ptr<promise<R>>; held: the caller keeps its future.
Promise(R, held) == [type |-> R, held |-> held, satisfied |-> FALSE]

\* A future that is ready as soon as it is made.
Future_Ready(R) == [type |-> R, state |-> "ready", value |-> 0]

\* promise->get_future(): the shared state has no value yet.
Future(R) == [type |-> R, state |-> "pending", value |-> 0]

\* The part of the state one operation of endpoint e works on.
View(e) ==
    [counter |-> callIdCounter[e], promises |-> promises[e],
     futures |-> futures[e], hooked |-> hooked[e],
     queue |-> dummyQueue, origin |-> origin]

\* Assigning promises[callId] releases the shared_ptr stored there: a promise
\* destroyed before set_value leaves its future with broken_promise.
Release(st, callId) ==
    IF /\ callId \in DOMAIN st.promises
       /\ st.promises[callId].held
       /\ ~st.promises[callId].satisfied
    THEN [st EXCEPT !.futures[callId].state = "broken"]
    ELSE st

\* ExampleInterface::sendRpcPacket<R>.  kept: the call site keeps the future
\* the hook returns (operator() does, the Response send does not).
SendRpcPacket(R, packet, org, kept, st) ==
    LET id == packet.instanceId
        registered ==
            IF R # "void"
            THEN LET released == Release(st, packet.callId)
                 IN [released EXCEPT
                        !.promises = Put(@, packet.callId, Promise(R, kept)),
                        !.futures = IF kept THEN Put(@, packet.callId, Future(R)) ELSE @]
            ELSE st
    IN [registered EXCEPT !.queue[id] = Append(@, packet),
                          !.origin[id] = Append(@, org)]

\* ExampleInterface::onResultReturned<R>.
OnResultReturned(R, callId, result, st) ==
    LET entry == IF callId \in DOMAIN st.promises THEN st.promises[callId] ELSE EmptyAny
        looked == [st EXCEPT
                      !.promises = Put(@, callId, entry),
                      !.hooked = Put(@, callId, IF callId \in DOMAIN @
                                                THEN @[callId] + 1 ELSE 1)]
    IN IF entry.type # R
       THEN [st |-> looked, raised |-> "bad_any_cast"]
       ELSE IF entry.satisfied
       THEN [st |-> looked, raised |-> "future_error"]
       ELSE [st |-> [looked EXCEPT
                        !.promises[callId].satisfied = TRUE,
                        !.futures = IF entry.held
                                    THEN [@ EXCEPT ![callId].state = "ready",
                                                   ![callId].value = result]
                                    ELSE @],
             raised |-> "none"]

-----------------------------------------------------------------------------
(* The core: RpcInterface and RpcCall *)

Constructed(e) == Len(callHandlers[e]) = NumDecl

\* The drivers construct both interface objects and give each its id before
\* they use either.
Ready == \A e \in Endpoints : Constructed(e) /\ instanceId[e] = DriverId(e)

\* Ids counted from one.
NextFunctionId_FromOne(e) == (Len(callHandlers[e]) + 1) % FunctionIdWidth

\* RpcInterface::registerCall: the id the next registered call gets.
NextFunctionId(e) == Len(callHandlers[e]) % FunctionIdWidth

\* A counter that moves by two.
GetNextCallId_ByTwo(st) == [st EXCEPT !.counter = @ + 2]

\* RpcInterface::getNextCallId: ++callIdCounter.  CallId is uint32_t; the
\* budget of a run keeps the counter far below the width (WideSpec has the
\* counter at its full width).
GetNextCallId(st) == [st EXCEPT !.counter = @ + 1]

\* RpcCall::doRemoteCall<callType>: build the packet, hand it to the send hook
\* with the method's declared return type as the hint.
DoRemoteCall(e, m, ctype, callId, shape, data, org, kept, st) ==
    LET packet == RpcPacket(instanceId[e], functionId[e][m], callId, ctype,
                            Serialize(shape, data))
    IN [st |-> SendRpcPacket(ReturnType(m), packet, org, kept, st),
        packet |-> packet]

Outcome(st, raised, invoked, sent, completed) ==
    [st |-> st, raised |-> raised, invoked |-> invoked, sent |-> sent,
     completed |-> completed]

\* A callback guard as in the RpcMessage variants: an empty handler is skipped.
InvokeCallback_Skipping(m, h, args) ==
    IF h = NoCallback
    THEN [raised |-> "none", ran |-> <<>>, result |-> 0]
    ELSE [raised |-> "none",
          ran |-> <<[method |-> m, handler |-> h, args |-> args]>>,
          result |-> Apply(h, args)]

\* std::apply(self->remoteCallback, args): an empty std::function throws
\* std::bad_function_call, a bound one runs the handler.
InvokeCallback(m, h, args) ==
    IF h = NoCallback
    THEN [raised |-> "bad_function_call", ran |-> <<>>, result |-> 0]
    ELSE [raised |-> "none",
          ran |-> <<[method |-> m, handler |-> h, args |-> args]>>,
          result |-> Apply(h, args)]

\* An answer that takes a call id from the counter and still sends under the
\* inbound one.
Answer_Minting(e, m, packet, org, call, st) ==
    LET answer == Origin(e, org.caller, org.method, org.args, org.call, m,
                         remoteCallback[e][m])
        r == DoRemoteCall(e, m, "Response", packet.callId, <<ReturnType(m)>>,
                          <<call.result>>, answer, FALSE, GetNextCallId(st))
    IN Outcome(r.st, "none", call.ran, <<r.packet>>, <<>>)

\* An answer sent under a call id minted for it, not the inbound one.
Answer_FreshCallId(e, m, packet, org, call, st) ==
    LET answer == Origin(e, org.caller, org.method, org.args, org.call, m,
                         remoteCallback[e][m])
        minted == GetNextCallId(st)
        r == DoRemoteCall(e, m, "Response", minted.counter, <<ReturnType(m)>>,
                          <<call.result>>, answer, FALSE, minted)
    IN Outcome(r.st, "none", call.ran, <<r.packet>>, <<>>)

\* The else branch of the call handler: the result goes back in a Response
\* with the inbound callId; the future the send hook returns is dropped.
Answer(e, m, packet, org, call, st) ==
    LET answer == Origin(e, org.caller, org.method, org.args, org.call, m,
                         remoteCallback[e][m])
        r == DoRemoteCall(e, m, "Response", packet.callId, <<ReturnType(m)>>,
                          <<call.result>>, answer, FALSE, st)
    IN Outcome(r.st, "none", call.ran, <<r.packet>>, <<>>)

\* A call handler that sends a Response for a void method as well.
CallHandler_AnsweringVoid(e, m, packet, org, st) ==
    LET args == Deserialize(packet.payload, ArgsTuple(m))
        call == InvokeCallback(m, remoteCallback[e][m], args.value)
    IN IF ~args.ok
       THEN Outcome(st, "bad_any_cast", <<>>, <<>>, <<>>)
       ELSE IF call.raised # "none"
       THEN Outcome(st, call.raised, call.ran, <<>>, <<>>)
       ELSE Answer(e, m, packet, org, call, st)

\* A call handler that mints the call id of its answer before it runs the
\* callback.
CallHandler_MintsFirst(e, m, packet, org, st) ==
    LET args == Deserialize(packet.payload, ArgsTuple(m))
        call == InvokeCallback(m, remoteCallback[e][m], args.value)
        minted == GetNextCallId(st)
    IN IF ~args.ok
       THEN Outcome(st, "bad_any_cast", <<>>, <<>>, <<>>)
       ELSE IF call.raised # "none"
       THEN Outcome(minted, call.raised, call.ran, <<>>, <<>>)
       ELSE IF ReturnType(m) = "void"
       THEN Outcome(minted, "none", call.ran, <<>>, <<>>)
       ELSE Answer(e, m, packet, org, call, minted)

\* A call handler that runs the callback and leaves the answer for later.
CallHandler_Deferring(e, m, packet, org, st) ==
    LET args == Deserialize(packet.payload, ArgsTuple(m))
        call == InvokeCallback(m, remoteCallback[e][m], args.value)
    IN IF ~args.ok
       THEN Outcome(st, "bad_any_cast", <<>>, <<>>, <<>>)
       ELSE Outcome(st, call.raised, call.ran, <<>>, <<>>)

\* The lambda of RpcCall::makeCallHandler, run for method m of endpoint e.
CallHandler(e, m, packet, org, st) ==
    LET args == Deserialize(packet.payload, ArgsTuple(m))
        call == InvokeCallback(m, remoteCallback[e][m], args.value)
    IN IF ~args.ok
       THEN Outcome(st, "bad_any_cast", <<>>, <<>>, <<>>)
       ELSE IF call.raised # "none"
       THEN Outcome(st, call.raised, call.ran, <<>>, <<>>)
       ELSE IF ReturnType(m) = "void"
       THEN Outcome(st, "none", call.ran, <<>>, <<>>)
       ELSE Answer(e, m, packet, org, call, st)

\* A result handler that completes the oldest call whatever the packet says.
ResultCallId_Oldest(packet) == 1

\* The callId the result handler passes on to the completion hook.
ResultCallId(packet) == packet.callId

\* A result handler that hands the result to the completion hook twice.
ResultHandler_Twice(R, packet, st) ==
    LET result == Deserialize(packet.payload, <<R>>)
    IN IF ~result.ok
       THEN Outcome(st, "bad_any_cast", <<>>, <<>>, <<>>)
       ELSE LET c == ResultCallId(packet)
                once == OnResultReturned(R, c, result.value[1], st)
                done == OnResultReturned(R, c, result.value[1], once.st)
                seen == [callId |-> c, type |-> R, value |-> result.value[1]]
            IN Outcome(done.st, done.raised, <<>>, <<>>, <<seen, seen>>)

\* The lambda of RpcCall::makeResultHandler for return type R.
ResultHandler(R, packet, st) ==
    LET result == Deserialize(packet.payload, <<R>>)
    IN IF ~result.ok
       THEN Outcome(st, "bad_any_cast", <<>>, <<>>, <<>>)
       ELSE LET c == ResultCallId(packet)
                done == OnResultReturned(R, c, result.value[1], st)
            IN Outcome(done.st, done.raised, <<>>, <<>>,
                       <<[callId |-> c, type |-> R, value |-> result.value[1]]>>)

\* A lookup without the range check, clamped to the last descriptor.
FindCallHandler_Clamped(e, fid) ==
    IF fid < Len(callHandlers[e])
    THEN callHandlers[e][fid + 1]
    ELSE callHandlers[e][Len(callHandlers[e])]

\* The Call branch's lookup: the descriptor registered under a function id,
\* 0 when the id is not below callHandlers.size().
FindCallHandler(e, fid) ==
    IF fid < Len(callHandlers[e]) THEN callHandlers[e][fid + 1] ELSE 0

\* A dispatch that drops a packet stamped with the endpoint's own instanceId.
Dispatch_DroppingOwnId(e, packet, org) ==
    IF packet.instanceId = instanceId[e]
    THEN Outcome(View(e), "none", <<>>, <<>>, <<>>)
    ELSE IF packet.callType = "Call"
    THEN IF FindCallHandler(e, packet.functionId) # 0
         THEN CallHandler(e, FindCallHandler(e, packet.functionId), packet, org, View(e))
         ELSE Outcome(View(e), "none", <<>>, <<>>, <<>>)
    ELSE IF packet.functionId \in DOMAIN resultHandlers[e]
         THEN ResultHandler(resultHandlers[e][packet.functionId], packet, View(e))
         ELSE Outcome(View(e), "none", <<>>, <<>>, <<>>)

\* A dispatch that does not look at callType: every packet is taken for a Call.
Dispatch_CallsOnly(e, packet, org) ==
    IF FindCallHandler(e, packet.functionId) # 0
    THEN CallHandler(e, FindCallHandler(e, packet.functionId), packet, org, View(e))
    ELSE Outcome(View(e), "none", <<>>, <<>>, <<>>)

\* A dispatch that treats a Response with an unknown function id as one
\* carrying an int result.
Dispatch_AnyResponse(e, packet, org) ==
    IF packet.callType = "Call"
    THEN IF FindCallHandler(e, packet.functionId) # 0
         THEN CallHandler(e, FindCallHandler(e, packet.functionId), packet, org, View(e))
         ELSE Outcome(View(e), "none", <<>>, <<>>, <<>>)
    ELSE IF packet.functionId \in DOMAIN resultHandlers[e]
         THEN ResultHandler(resultHandlers[e][packet.functionId], packet, View(e))
         ELSE ResultHandler("int", packet, View(e))

\* RpcInterface::dispatch.
Dispatch(e, packet, org) ==
    IF packet.callType = "Call"
    THEN IF FindCallHandler(e, packet.functionId) # 0
         THEN CallHandler(e, FindCallHandler(e, packet.functionId), packet, org, View(e))
         ELSE Outcome(View(e), "none", <<>>, <<>>, <<>>)
    ELSE IF packet.functionId \in DOMAIN resultHandlers[e]
         THEN ResultHandler(resultHandlers[e][packet.functionId], packet, View(e))
         ELSE Outcome(View(e), "none", <<>>, <<>>, <<>>)

-----------------------------------------------------------------------------
(* Initial state: no field of either interface object is constructed yet *)

Observed(op, e, packet, raised, invoked, sent, completed) ==
    [op |-> op, endpoint |-> e, packet |-> packet, raised |-> raised,
     invoked |-> invoked, sent |-> sent, completed |-> completed,
     bound |-> <<>>, inner |-> <<>>]

\* After an operation that runs no handler and sends nothing.
Quiet == Observed("config", "sender", NoPacket, "none", <<>>, <<>>, <<>>)

\* A uint32_t value of halves hi and lo.
Wide(hi, lo) == [hi |-> hi, lo |-> lo]

\* a < b for uint32_t values.
Less32(a, b) == a.hi < b.hi \/ (a.hi = b.hi /\ a.lo < b.lo)

\* No thread is inside getNextCallId.
NoThreads ==
    [pc |-> [t \in 1..2 |-> "idle"], reg |-> [t \in 1..2 |-> Wide(0, 0)],
     overlapped |-> FALSE]

InitObjects ==
    /\ callHandlers = [e \in Endpoints |-> <<>>]
    /\ resultHandlers = [e \in Endpoints |-> EmptyMap]
    /\ functionId = [e \in Endpoints |-> [m \in Methods |-> 0]]
    /\ remoteCallback = [e \in Endpoints |-> [m \in Methods |-> NoCallback]]
    /\ callIdCounter = [e \in Endpoints |-> 0]
    /\ instanceId = [e \in Endpoints |-> 0]
    /\ promises = [e \in Endpoints |-> EmptyMap]
    /\ futures = [e \in Endpoints |-> EmptyMap]
    /\ dummyQueue = [i \in InstanceIds |-> <<>>]
    /\ origin = [i \in InstanceIds |-> <<>>]
    /\ injected = 0
    /\ hooked = [e \in Endpoints |-> EmptyMap]
    /\ last = Quiet

\* After operator=: the method of endpoint e that was given handler h.
Binding(e, m, h) ==
    [Quiet EXCEPT !.op = "bind", !.endpoint = e,
                  !.bound = <<[method |-> m, handler |-> h]>>]

Init ==
    /\ InitObjects
    /\ wideCounter = Wide(0, 0)
    /\ wideOutstanding = <<>>
    /\ wideMinted = <<>>
    /\ threads = NoThreads

-----------------------------------------------------------------------------
(* Operations *)

\* A registration that records a response handler for every method.
Register_AllResults(e) ==
    /\ ~Constructed(e)
    /\ LET m == Len(callHandlers[e]) + 1
           id == NextFunctionId(e)
       IN /\ functionId' = [functionId EXCEPT ![e][m] = id]
          /\ callHandlers' = [callHandlers EXCEPT ![e] = Append(@, m)]
          /\ resultHandlers' =
                [resultHandlers EXCEPT ![e] = Put(@, id, ReturnType(m))]
    /\ last' = Quiet
    /\ UNCHANGED wideVars
    /\ UNCHANGED <<remoteCallback, callIdCounter, instanceId, promises, futures,
                   dummyQueue, origin, injected, hooked>>

\* RpcCall's constructor: the next declared field registers itself.
Register(e) ==
    /\ ~Constructed(e)
    /\ LET m == Len(callHandlers[e]) + 1
           id == NextFunctionId(e)
       IN /\ functionId' = [functionId EXCEPT ![e][m] = id]
          /\ callHandlers' = [callHandlers EXCEPT ![e] = Append(@, m)]
          /\ resultHandlers' =
                IF ReturnType(m) # "void"
                THEN [resultHandlers EXCEPT ![e] = Put(@, id, ReturnType(m))]
                ELSE resultHandlers
    /\ last' = Quiet
    /\ UNCHANGED wideVars
    /\ UNCHANGED <<remoteCallback, callIdCounter, instanceId, promises, futures,
                   dummyQueue, origin, injected, hooked>>

\* RpcInterface::setInstanceId.
SetInstanceId(e, id) ==
    /\ Constructed(e)
    /\ instanceId' = [instanceId EXCEPT ![e] = id]
    /\ last' = Quiet
    /\ UNCHANGED wideVars
    /\ UNCHANGED <<callHandlers, resultHandlers, functionId, remoteCallback,
                   callIdCounter, promises, futures, dummyQueue, origin, injected,
                   hooked>>

Bound == {em \in Endpoints \X Methods : remoteCallback[em[1]][em[2]] # NoCallback}

\* How much of the run's budget is used.
Spent == callIdCounter["sender"] + callIdCounter["receiver"] + Cardinality(Bound) + injected

\* An assignment that keeps a handler once one is bound.
Assign_KeepFirst(old, h) == IF old = NoCallback THEN h ELSE old

\* remoteCallback = std::forward<Functor>(f): the new handler replaces the old.
Assign(old, h) == h

\* RpcCall::operator=: bind or rebind the local handler.
Bind(e, m, h) ==
    /\ Ready
    /\ <<e, m>> \in Bound \/ Spent < MaxOps
    /\ remoteCallback' = [remoteCallback EXCEPT ![e][m] = Assign(remoteCallback[e][m], h)]
    /\ last' = Binding(e, m, h)
    /\ UNCHANGED wideVars
    /\ UNCHANGED <<callHandlers, resultHandlers, functionId, callIdCounter,
                   instanceId, promises, futures, dummyQueue, origin, injected,
                   hooked>>

\* Writing back what an operation of endpoint e did.
Commit(e, st) ==
    /\ callIdCounter' = [callIdCounter EXCEPT ![e] = st.counter]
    /\ promises' = [promises EXCEPT ![e] = st.promises]
    /\ futures' = [futures EXCEPT ![e] = st.futures]
    /\ hooked' = [hooked EXCEPT ![e] = st.hooked]
    /\ dummyQueue' = st.queue
    /\ origin' = st.origin

\* RpcCall::operator(): mint a call id, send the Call packet.
Invoke(e, m, a) ==
    /\ Ready
    /\ Spent < MaxOps
    /\ LET minted == GetNextCallId(View(e))
           callId == minted.counter
           r == DoRemoteCall(e, m, "Call", callId, ArgsTuple(m), a,
                             Origin(e, e, m, a, callId, 0, "-"), TRUE, minted)
       IN /\ Commit(e, r.st)
          /\ last' = Quiet
    /\ UNCHANGED wideVars
    /\ UNCHANGED <<callHandlers, resultHandlers, functionId, remoteCallback,
                   instanceId, injected>>

\* The queue the receive loop of an endpoint reads: the one of its peer's id.
LoopQueue(e) == IF e = "sender" THEN receiverId ELSE senderId

\* A loop that a failing dispatch ends: the packets after it are never taken.
LoopTakes_Aborting(q, raised, st) ==
    IF raised = "none"
    THEN [st EXCEPT !.queue[q] = Tail(@), !.origin[q] = Tail(@)]
    ELSE [st EXCEPT !.queue[q] = <<>>, !.origin[q] = <<>>]

\* The loop catches what dispatch raised and goes on with the next packet.
LoopTakes(q, raised, st) ==
    [st EXCEPT !.queue[q] = Tail(@), !.origin[q] = Tail(@)]

\* One round of the receive loop of endpoint e:
\* try { dispatch(packet) } catch (std::exception&) { report }.
Deliver(e) ==
    /\ Ready
    /\ dummyQueue[LoopQueue(e)] # <<>>
    /\ LET q == LoopQueue(e)
           packet == Head(dummyQueue[q])
           d == Dispatch(e, packet, Head(origin[q]))
       IN /\ Commit(e, LoopTakes(q, d.raised, d.st))
          /\ last' = Observed("deliver", e, packet, d.raised, d.invoked, d.sent,
                              d.completed)
    /\ UNCHANGED wideVars
    /\ UNCHANGED <<callHandlers, resultHandlers, functionId, remoteCallback,
                   instanceId, injected>>

\* Packets a transport can make up for endpoint e: a Call of a sender that
\* declares one method more, and Responses for a method with a result (with
\* any call id up to one past the ids e has issued), for a void method and for
\* a function id past the declared range.
ForgedPackets(e) ==
    {RpcPacket(senderId, NumDecl, 1, "Call", Serialize(<<"int">>, <<9>>))}
    \cup {RpcPacket(senderId, f, 1, "Response", Serialize(<<"int">>, <<9>>)) :
            f \in {3, NumDecl}}
    \cup {RpcPacket(senderId, 4, c, "Response", Serialize(<<"int">>, <<9>>)) :
            c \in 1..(callIdCounter[e] + 1)}
    \cup {RpcPacket(senderId, 5, c, "Response", Serialize(<<"bool">>, <<1>>)) :
            c \in 1..(callIdCounter[e] + 1)}

\* A dispatch that looks a Response's functionId up with operator[], which
\* inserts an entry for an id that has none.
Inject_Inserting(e, packet) ==
    /\ Ready
    /\ Spent < MaxOps
    /\ injected' = injected + 1
    /\ LET d == Dispatch(e, packet, Forged)
       IN /\ Commit(e, d.st)
          /\ last' = Observed("inject", e, packet, d.raised, d.invoked, d.sent,
                              d.completed)
    /\ resultHandlers' =
          IF packet.callType = "Response"
          THEN [resultHandlers EXCEPT ![e] = Put(@, packet.functionId, "int")]
          ELSE resultHandlers
    /\ UNCHANGED wideVars
    /\ UNCHANGED <<callHandlers, functionId, remoteCallback, instanceId>>

\* The loop is handed a packet no endpoint sent.
Inject(e, packet) ==
    /\ Ready
    /\ Spent < MaxOps
    /\ injected' = injected + 1
    /\ LET d == Dispatch(e, packet, Forged)
       IN /\ Commit(e, d.st)
          /\ last' = Observed("inject", e, packet, d.raised, d.invoked, d.sent,
                              d.completed)
    /\ UNCHANGED wideVars
    /\ UNCHANGED <<callHandlers, resultHandlers, functionId, remoteCallback,
                   instanceId>>

Next ==
    \/ \E e \in Endpoints : Register(e)
    \/ \E e \in Endpoints : SetInstanceId(e, DriverId(e))
    \/ \E e \in Endpoints, m \in Used : \E h \in Handlers(m) : Bind(e, m, h)
    \/ \E e \in Endpoints, m \in Used : \E a \in ArgLists(m) : Invoke(e, m, a)
    \/ \E e \in Endpoints : Deliver(e)
    \/ \E e \in Endpoints : \E packet \in ForgedPackets(e) : Inject(e, packet)

Spec == Init /\ [][Next]_vars

-----------------------------------------------------------------------------
(* The RpcMessage variant of the core: src/rpc.h *)

\* ReturnType(): the value-initialised result (0 for int, false for bool).
\* A default construction that leaves the value uninitialised.
DefaultValue_Indeterminate(R) == 7

DefaultValue(R) == 0

\* A memberCall without the guard: the callback is applied as it is.
MemberCall_Unguarded(m, h, args) ==
    IF h = NoCallback
    THEN [raised |-> "bad_function_call", ran |-> <<>>, result |-> 0]
    ELSE [raised |-> "none",
          ran |-> <<[method |-> m, handler |-> h, args |-> args]>>,
          result |-> Apply(h, args)]

\* The memberCall lambda of details::makeCallHandler: the callback runs if one
\* is bound, else the call is skipped and ReturnType() is the result.
MemberCall(m, h, args) ==
    IF h # NoCallback
    THEN [raised |-> "none",
          ran |-> <<[method |-> m, handler |-> h, args |-> args]>>,
          result |-> Apply(h, args)]
    ELSE [raised |-> "none", ran |-> <<>>, result |-> DefaultValue(ReturnType(m))]

\* RpcCall::doRemoteCall<response> of rpc.h: a call mints its call id here, a
\* response keeps the one it is given; the hint of the send hook is void for a
\* response.  The message's response flag is kept as callType.
MessageDoRemoteCall(e, m, response, callId, shape, data, org, kept, st) ==
    LET minted == IF response THEN st ELSE GetNextCallId(st)
        message == RpcPacket(instanceId[e], functionId[e][m],
                             IF response THEN callId ELSE minted.counter,
                             IF response THEN "Response" ELSE "Call",
                             Serialize(shape, data))
    IN [st |-> SendRpcPacket(IF response THEN "void" ELSE ReturnType(m),
                             message, org, kept, minted),
        packet |-> message]

\* The lambda of details::makeCallHandler of rpc.h.
MessageCallHandler(e, m, message, org, st) ==
    LET args == Deserialize(message.payload, ArgsTuple(m))
        call == MemberCall(m, remoteCallback[e][m], args.value)
        answer == Origin(e, org.caller, org.method, org.args, org.call, m,
                         remoteCallback[e][m])
    IN IF ~args.ok
       THEN Outcome(st, "bad_any_cast", <<>>, <<>>, <<>>)
       ELSE IF ReturnType(m) = "void"
       THEN Outcome(st, call.raised, call.ran, <<>>, <<>>)
       ELSE LET r == MessageDoRemoteCall(e, m, TRUE, message.callId,
                                         <<ReturnType(m)>>, <<call.result>>,
                                         answer, FALSE, st)
            IN Outcome(r.st, "none", call.ran, <<r.packet>>, <<>>)

\* RpcInterface::dispatch of rpc.h: both tables are looked up by find.
MessageDispatch(e, message, org) ==
    IF message.callType = "Response"
    THEN IF message.functionId \in DOMAIN resultHandlers[e]
         THEN ResultHandler(resultHandlers[e][message.functionId], message, View(e))
         ELSE Outcome(View(e), "none", <<>>, <<>>, <<>>)
    ELSE IF FindCallHandler(e, message.functionId) # 0
         THEN MessageCallHandler(e, FindCallHandler(e, message.functionId),
                                 message, org, View(e))
         ELSE Outcome(View(e), "none", <<>>, <<>>, <<>>)

\* RpcCall::operator() of rpc.h: doRemoteCall<false>(0, args...).
MessageInvoke(e, m, a) ==
    /\ Ready
    /\ Spent < MaxOps
    /\ LET r == MessageDoRemoteCall(e, m, FALSE, 0, ArgsTuple(m), a,
                    Origin(e, e, m, a, GetNextCallId(View(e)).counter, 0, "-"),
                    TRUE, View(e))
       IN /\ Commit(e, r.st)
          /\ last' = Quiet
    /\ UNCHANGED wideVars
    /\ UNCHANGED <<callHandlers, resultHandlers, functionId, remoteCallback,
                   instanceId, injected>>

\* The loops of the examples of this variant have no try block: what a
\* dispatch raises ends the loop, and the messages behind it are never taken.
MessageLoopTakes(q, raised, st) ==
    IF raised = "none"
    THEN [st EXCEPT !.queue[q] = Tail(@), !.origin[q] = Tail(@)]
    ELSE [st EXCEPT !.queue[q] = <<>>, !.origin[q] = <<>>]

\* One round of a receive loop: receiver.dispatch(message).
MessageDeliver(e) ==
    /\ Ready
    /\ dummyQueue[LoopQueue(e)] # <<>>
    /\ LET q == LoopQueue(e)
           message == Head(dummyQueue[q])
           d == MessageDispatch(e, message, Head(origin[q]))
       IN /\ Commit(e, MessageLoopTakes(q, d.raised, d.st))
          /\ last' = Observed("deliver", e, message, d.raised, d.invoked, d.sent,
                              d.completed)
    /\ UNCHANGED wideVars
    /\ UNCHANGED <<callHandlers, resultHandlers, functionId, remoteCallback,
                   instanceId, injected>>

MessageNext ==
    \/ \E e \in Endpoints : Register(e)
    \/ \E e \in Endpoints : SetInstanceId(e, DriverId(e))
    \/ \E e \in Endpoints, m \in Used : \E h \in Handlers(m) : Bind(e, m, h)
    \/ \E e \in Endpoints, m \in Used : \E a \in ArgLists(m) : MessageInvoke(e, m, a)
    \/ \E e \in Endpoints : MessageDeliver(e)

MessageSpec == Init /\ [][MessageNext]_vars

-----------------------------------------------------------------------------
(* Reentrant dispatch: a bound handler that calls dispatch while it runs *)

\* Packets a handler can be made to dispatch on its own endpoint while it
\* runs: the packets a transport can make up, a Call of notifyTwo and Calls of
\* square under the call ids 1 and 2.
InnerPackets(e) ==
    ForgedPackets(e)
    \cup {RpcPacket(senderId, 3, 1, "Call", Serialize(<<>>, <<>>))}
    \cup {RpcPacket(senderId, 4, c, "Call", Serialize(<<"int">>, <<3>>)) : c \in 1..2}

\* A call handler that keeps the packet being dispatched in a place the inner
\* dispatch overwrites: it answers under the inner packet's call id.
ReenteredCallHandler_SharedPacket(e, m, packet, org, inner) ==
    LET args == Deserialize(packet.payload, ArgsTuple(m))
        call == InvokeCallback(m, remoteCallback[e][m], args.value)
        nested == Dispatch(e, inner, Forged)
        seen == call.ran \o nested.invoked
    IN IF ~args.ok
       THEN Outcome(View(e), "bad_any_cast", <<>>, <<>>, <<>>)
       ELSE IF call.raised # "none"
       THEN Outcome(View(e), call.raised, call.ran, <<>>, <<>>)
       ELSE IF nested.raised # "none" \/ ReturnType(m) = "void"
       THEN Outcome(nested.st, nested.raised, seen, nested.sent, nested.completed)
       ELSE LET a == Answer(e, m, inner, org, call, nested.st)
            IN Outcome(a.st, "none", seen, nested.sent \o a.sent, nested.completed)

\* The lambda of RpcCall::makeCallHandler when the bound callable calls
\* dispatch(inner) on its own endpoint before it returns its result.  The
\* arguments are deserialized and the callable entered before anything is
\* written, so the inner dispatch starts from the endpoint's state; what the
\* inner dispatch throws leaves the callable and the outer dispatch; the
\* Response is sent, from the state the inner dispatch left, with packet.callId
\* of the outer dispatch's own parameter.
ReenteredCallHandler(e, m, packet, org, inner) ==
    LET args == Deserialize(packet.payload, ArgsTuple(m))
        call == InvokeCallback(m, remoteCallback[e][m], args.value)
        nested == Dispatch(e, inner, Forged)
        seen == call.ran \o nested.invoked
    IN IF ~args.ok
       THEN Outcome(View(e), "bad_any_cast", <<>>, <<>>, <<>>)
       ELSE IF call.raised # "none"
       THEN Outcome(View(e), call.raised, call.ran, <<>>, <<>>)
       ELSE IF nested.raised # "none" \/ ReturnType(m) = "void"
       THEN Outcome(nested.st, nested.raised, seen, nested.sent, nested.completed)
       ELSE LET a == Answer(e, m, packet, org, call, nested.st)
            IN Outcome(a.st, "none", seen, nested.sent \o a.sent, nested.completed)

\* The loop dispatches the next Call and its bound handler, while it runs,
\* dispatches the packet inner on the same endpoint.
Reenter(e, inner) ==
    /\ Ready
    /\ Spent < MaxOps
    /\ dummyQueue[LoopQueue(e)] # <<>>
    /\ LET q == LoopQueue(e)
           packet == Head(dummyQueue[q])
           m == FindCallHandler(e, packet.functionId)
       IN /\ packet.callType = "Call"
          /\ m # 0
          /\ remoteCallback[e][m] # NoCallback
          /\ LET d == ReenteredCallHandler(e, m, packet, Head(origin[q]), inner)
             IN /\ Commit(e, LoopTakes(q, d.raised, d.st))
                /\ last' = [Observed("reenter", e, packet, d.raised, d.invoked,
                                     d.sent, d.completed)
                              EXCEPT !.inner = <<inner>>]
    /\ injected' = injected + 1
    /\ UNCHANGED wideVars
    /\ UNCHANGED <<callHandlers, resultHandlers, functionId, remoteCallback,
                   instanceId>>

ReentrantNext ==
    \/ \E e \in Endpoints : Register(e)
    \/ \E e \in Endpoints : SetInstanceId(e, DriverId(e))
    \/ \E e \in Endpoints, m \in Used : \E h \in Handlers(m) : Bind(e, m, h)
    \/ \E e \in Endpoints, m \in Used : \E a \in ArgLists(m) : Invoke(e, m, a)
    \/ \E e \in Endpoints : Deliver(e)
    \/ \E e \in Endpoints : \E inner \in InnerPackets(e) : Reenter(e, inner)

ReentrantSpec == Init /\ [][ReentrantNext]_vars

-----------------------------------------------------------------------------
(* The exchange in both directions, every sent packet dispatched in the end *)

\* Both interface objects constructed, given their ids, and square bound on
\* both, to v * v on the sender and to v + v on the receiver; nothing called.
LiveInit ==
    /\ callHandlers = [e \in Endpoints |-> [m \in Methods |-> m]]
    /\ resultHandlers =
          [e \in Endpoints |->
              [f \in {m - 1 : m \in {x \in Methods : ReturnType(x) # "void"}}
                  |-> ReturnType(f + 1)]]
    /\ functionId = [e \in Endpoints |-> [m \in Methods |-> m - 1]]
    /\ remoteCallback =
          [e \in Endpoints |->
              [m \in Methods |->
                  IF m # 5 THEN NoCallback
                  ELSE IF e = "sender" THEN "square" ELSE "twice"]]
    /\ callIdCounter = [e \in Endpoints |-> 0]
    /\ instanceId = [e \in Endpoints |-> DriverId(e)]
    /\ promises = [e \in Endpoints |-> EmptyMap]
    /\ futures = [e \in Endpoints |-> EmptyMap]
    /\ dummyQueue = [i \in InstanceIds |-> <<>>]
    /\ origin = [i \in InstanceIds |-> <<>>]
    /\ injected = 0
    /\ hooked = [e \in Endpoints |-> EmptyMap]
    /\ last = Binding("receiver", 5, "twice")
    /\ wideCounter = Wide(0, 0)
    /\ wideOutstanding = <<>>
    /\ wideMinted = <<>>
    /\ threads = NoThreads

\* RpcCall::operator() of square on endpoint e.
LiveInvoke(e, a) ==
    /\ callIdCounter["sender"] + callIdCounter["receiver"] < MaxLiveCalls
    /\ LET minted == GetNextCallId(View(e))
           callId == minted.counter
           r == DoRemoteCall(e, 5, "Call", callId, ArgsTuple(5), a,
                             Origin(e, e, 5, a, callId, 0, "-"), TRUE, minted)
       IN /\ Commit(e, r.st)
          /\ last' = Quiet
    /\ UNCHANGED wideVars
    /\ UNCHANGED <<callHandlers, resultHandlers, functionId, remoteCallback,
                   instanceId, injected>>

LiveNext ==
    \/ \E e \in Endpoints : \E a \in ArgLists(5) : LiveInvoke(e, a)
    \/ \E e \in Endpoints : Deliver(e)

\* Each endpoint's loop keeps running: a queued packet is dispatched in the
\* end.
LiveSpec ==
    /\ LiveInit
    /\ [][LiveNext]_vars
    /\ \A e \in Endpoints : WF_vars(Deliver(e))

-----------------------------------------------------------------------------
(* The call-id counter at its full width *)

\* ++callIdCounter on a uint32_t: 4294967295 is followed by 0.
PreIncrement(c) ==
    IF c.lo + 1 < CallIdLimb
    THEN Wide(c.hi, c.lo + 1)
    ELSE Wide((c.hi + 1) % CallIdLimb, 0)

\* The counter after 0, 1 and 4294967294 invocations.
WideStarts == {Wide(0, 0), Wide(0, 1), Wide(CallIdLimb - 1, CallIdLimb - 2)}

\* An interface object after some invocations: either every call with a
\* result was answered, or the first call was one with a result and its
\* Response has not been dispatched.
WideInit ==
    /\ InitObjects
    /\ wideCounter \in WideStarts
    /\ wideOutstanding \in
          IF wideCounter = Wide(0, 0) THEN {<<>>} ELSE {<<>>, <<Wide(0, 1)>>}
    /\ wideMinted = <<>>
    /\ threads = NoThreads

\* RpcCall::operator() of a void method (result = FALSE) or of a method with
\* a result: getNextCallId, then sendRpcPacket, which stores a promise under
\* the call id when there is a result.
WideInvoke(result) ==
    /\ Len(wideMinted) < MaxWideCalls
    /\ wideCounter' = PreIncrement(wideCounter)
    /\ wideMinted' = Append(wideMinted, wideCounter')
    /\ wideOutstanding' =
          IF result THEN Append(wideOutstanding, wideCounter') ELSE wideOutstanding
    /\ UNCHANGED threads
    /\ UNCHANGED objectVars

\* The Response to the i-th unanswered call is dispatched.
WideAnswer(i) ==
    /\ i \in 1..Len(wideOutstanding)
    /\ wideOutstanding' =
          [k \in 1..(Len(wideOutstanding) - 1) |->
              IF k < i THEN wideOutstanding[k] ELSE wideOutstanding[k + 1]]
    /\ UNCHANGED <<wideCounter, wideMinted, threads>>
    /\ UNCHANGED objectVars

WideNext ==
    \/ \E result \in BOOLEAN : WideInvoke(result)
    \/ \E i \in 1..MaxWideCalls + 1 : WideAnswer(i)

WideSpec == WideInit /\ [][WideNext]_vars

-----------------------------------------------------------------------------
(* Two threads invoking methods of one interface object *)

\* The interface object after 0, 1 or 4294967294 invocations, no thread in
\* an invocation.
RaceInit ==
    /\ InitObjects
    /\ wideCounter \in WideStarts
    /\ wideOutstanding = <<>>
    /\ wideMinted = <<>>
    /\ threads = NoThreads

\* Invocations begun so far in this run.
Begun == Len(wideMinted) + Cardinality({t \in 1..2 : threads.pc[t] # "idle"})

\* Thread t enters operator() and getNextCallId and reads callIdCounter for
\* the ++.  No lock is taken: the other thread may be inside as well.
RaceLoad(t) ==
    /\ threads.pc[t] = "idle"
    /\ Begun < MaxWideCalls
    /\ threads' = [threads EXCEPT
                      !.pc[t] = "loaded",
                      !.reg[t] = wideCounter,
                      !.overlapped = @ \/ (\E u \in 1..2 : threads.pc[u] # "idle")]
    /\ UNCHANGED <<wideCounter, wideOutstanding, wideMinted>>
    /\ UNCHANGED objectVars

\* Thread t writes the incremented value back.
RaceStore(t) ==
    /\ threads.pc[t] = "loaded"
    /\ wideCounter' = PreIncrement(threads.reg[t])
    /\ threads' = [threads EXCEPT !.pc[t] = "stored",
                                  !.reg[t] = PreIncrement(@)]
    /\ UNCHANGED <<wideOutstanding, wideMinted>>
    /\ UNCHANGED objectVars

\* getNextCallId returns in thread t, by value, what ++callIdCounter refers
\* to: the value the thread computed, or the counter read again (reload),
\* and doRemoteCall sends the packet under that call id.
RaceReturn(t, reload) ==
    /\ threads.pc[t] = "stored"
    /\ wideMinted' = Append(wideMinted,
                            IF reload THEN wideCounter ELSE threads.reg[t])
    /\ threads' = [threads EXCEPT !.pc[t] = "idle"]
    /\ UNCHANGED <<wideCounter, wideOutstanding>>
    /\ UNCHANGED objectVars

RaceNext ==
    \/ \E t \in 1..2 : RaceLoad(t)
    \/ \E t \in 1..2 : RaceStore(t)
    \/ \E t \in 1..2 : \E reload \in BOOLEAN : RaceReturn(t, reload)

RaceSpec == RaceInit /\ [][RaceNext]_vars

-----------------------------------------------------------------------------
(* Reading a step: which packet the step dispatched, and on which endpoint *)

\* This step is a dispatch (by a receive loop or of a made-up packet) on e.
Dispatched(e) == last'.op \in {"deliver", "inject"} /\ last'.endpoint = e

\* This step is one round of the receive loop of e.
Delivered(e) == last'.op = "deliver" /\ last'.endpoint = e

\* The history of the packet a round of e's receive loop takes.
Taken(e) == Head(origin[LoopQueue(e)])

Pending(e, c) == c \in DOMAIN futures[e] /\ futures[e][c].state = "pending"

Ready_(e, c) == c \in DOMAIN futures[e] /\ futures[e][c].state = "ready"

-----------------------------------------------------------------------------
(* C1 *)

\* C1: dispatching a Response on an endpoint changes no continuation of that
\* endpoint other than the one registered under the Response's callId, and no
\* continuation of the other endpoint; a continuation gets a result only in a
\* step that dispatches, on its own endpoint, a Response carrying its callId;
\* and when the continuation registered under the callId is pending and of the
\* Response's type, that step resolves it with the Response's value.
C1_ResponseResolvesOnlyItsOwnCall ==
    [][\A e \in Endpoints :
         /\ (Dispatched(e) /\ last'.packet.callType = "Response") =>
               /\ \A k \in DOMAIN futures[e] :
                     k # last'.packet.callId => futures'[e][k] = futures[e][k]
               /\ \A k \in DOMAIN promises[e] :
                     k # last'.packet.callId => promises'[e][k] = promises[e][k]
               /\ futures'[Peer(e)] = futures[Peer(e)]
               /\ LET c == last'.packet.callId
                      f == last'.packet.functionId
                  IN (/\ Pending(e, c)
                      /\ f \in DOMAIN resultHandlers[e]
                      /\ futures[e][c].type = resultHandlers[e][f]
                      /\ last'.packet.payload.shape = <<resultHandlers[e][f]>>)
                     => /\ futures'[e][c].state = "ready"
                        /\ futures'[e][c].value = last'.packet.payload.data[1]
         /\ \A k \in DOMAIN futures[e] :
               (futures[e][k].state # "ready" /\ futures'[e][k].state = "ready")
               => /\ Dispatched(e)
                  /\ last'.packet.callType = "Response"
                  /\ last'.packet.callId = k
    ]_vars

\* Two calls of different methods are outstanding on one endpoint and the
\* Response to the later one has been dispatched first: the later call is
\* resolved, the earlier one is still pending.
C1_Witness ==
    \E e \in Endpoints :
        /\ last.op \in {"deliver", "inject"}
        /\ last.endpoint = e
        /\ last.packet.callType = "Response"
        /\ last.packet.callId = 2
        /\ Pending(e, 1)
        /\ Ready_(e, 2)
        /\ futures[e][1].type # futures[e][2].type

-----------------------------------------------------------------------------
(* C2 *)

\* C2: when the receive loop of an endpoint dispatches the Response that the
\* peer sent for a call this endpoint issued, and the continuation of that call
\* is pending, the continuation is resolved with exactly h(v): v the arguments
\* passed at the call site, h the handler bound on the peer for the called
\* method when the peer dispatched the Call.
C2_ResolvedWithHandlerResult ==
    [][\A e \in Endpoints :
         (/\ Delivered(e)
          /\ last'.packet.callType = "Response"
          /\ Taken(e).caller = e
          /\ Pending(e, Taken(e).call))
         => /\ Taken(e).by = Peer(e)
            /\ Taken(e).served = Taken(e).method
            /\ Taken(e).handler \in Handlers(Taken(e).method)
            /\ futures'[e][Taken(e).call].state = "ready"
            /\ futures'[e][Taken(e).call].value
                   = Apply(Taken(e).handler, Taken(e).args)
    ]_vars

\* square(5) with square bound to v * v on the receiver: the sender has
\* dispatched the receiver's Response and holds 25.
C2_Witness ==
    /\ last.op = "deliver"
    /\ last.endpoint = "sender"
    /\ last.packet.callType = "Response"
    /\ Ready_("sender", last.packet.callId)
    /\ futures["sender"][last.packet.callId].value = 25
    /\ remoteCallback["receiver"][5] = "square"

-----------------------------------------------------------------------------
(* C3 *)

\* C3: when the receive loop of an endpoint dispatches the Call packet of an
\* invocation of a void method whose handler is bound there, exactly one
\* handler runs: the one bound for that method, with arguments equal to those
\* passed at the call site; nothing is raised.
C3_VoidRoundTrip ==
    [][\A e \in Endpoints :
         (/\ Delivered(e)
          /\ last'.packet.callType = "Call"
          /\ Taken(e).by \in Endpoints
          /\ ReturnType(Taken(e).method) = "void"
          /\ remoteCallback[e][Taken(e).method] # NoCallback)
         => /\ last'.raised = "none"
            /\ last'.invoked = <<[method |-> Taken(e).method,
                                  handler |-> remoteCallback[e][Taken(e).method],
                                  args |-> Taken(e).args]>>
    ]_vars

\* The receiver has run its addAccount handler with the arguments (2, 7, 100)
\* of a call made on the sender.
C3_Witness ==
    /\ last.op = "deliver"
    /\ last.endpoint = "receiver"
    /\ last.raised = "none"
    /\ last.invoked = <<[method |-> 1, handler |-> "print", args |-> <<2, 7, 100>>]>>

-----------------------------------------------------------------------------
(* C4 *)

\* C4: the k-th registered method (0-based) has functionId k and sits at
\* position k of the call table, so the ids assigned so far are 0..n-1 without
\* gap or duplicate; and a method registered on both endpoints has the same
\* functionId on both.
C4_FunctionIdIsDeclarationOrder ==
    /\ \A e \in Endpoints :
          /\ \A k \in 1..Len(callHandlers[e]) :
                callHandlers[e][k] = k /\ functionId[e][k] = k - 1
          /\ {functionId[e][m] : m \in 1..Len(callHandlers[e])}
                = 0..(Len(callHandlers[e]) - 1)
    /\ \A m \in Methods :
          (m <= Len(callHandlers["sender"]) /\ m <= Len(callHandlers["receiver"]))
          => functionId["sender"][m] = functionId["receiver"][m]

\* Both interface objects are constructed, with all their methods registered.
C4_Witness ==
    \A e \in Endpoints : Constructed(e) /\ functionId[e][NumDecl] = NumDecl - 1

-----------------------------------------------------------------------------
(* Reading a step: what a dispatch on an endpoint may leave behind *)

\* The fields of the interface object of e and of its completion table.
Tables(e) ==
    [callHandlers |-> callHandlers[e], resultHandlers |-> resultHandlers[e],
     functionId |-> functionId[e], remoteCallback |-> remoteCallback[e],
     callIdCounter |-> callIdCounter[e], instanceId |-> instanceId[e],
     promises |-> promises[e], futures |-> futures[e]]

\* This step puts no packet into any queue: at most the receive loop of e
\* takes the packet it dispatched.
NothingSent(e) ==
    \A q \in InstanceIds :
        dummyQueue'[q] = IF Delivered(e) /\ q = LoopQueue(e)
                         THEN Tail(dummyQueue[q])
                         ELSE dummyQueue[q]

\* Everything a dispatch of a packet on e would do.
Effect(e, packet, org) ==
    LET d == Dispatch(e, packet, org)
    IN [raised |-> d.raised, invoked |-> d.invoked, sent |-> d.sent,
        completed |-> d.completed, counter |-> d.st.counter,
        promises |-> d.st.promises, futures |-> d.st.futures]

-----------------------------------------------------------------------------
(* C5 *)

\* C5: on every endpoint the completion hook has been invoked at most once
\* for any callId, however many Responses carrying that callId were
\* dispatched.
C5_HookAtMostOncePerCallId ==
    \A e \in Endpoints : \A c \in DOMAIN hooked[e] : hooked[e][c] <= 1

-----------------------------------------------------------------------------
(* C6 *)

\* C6: dispatching a Response whose callId has no pending continuation on the
\* endpoint (never issued, or already resolved) raises nothing and leaves the
\* endpoint's state as it was.
C6_ResponseWithoutPendingCallIsNoOp ==
    [][\A e \in Endpoints :
         (/\ Dispatched(e)
          /\ last'.packet.callType = "Response"
          /\ ~Pending(e, last'.packet.callId))
         => /\ last'.raised = "none"
            /\ Tables(e)' = Tables(e)
    ]_vars

-----------------------------------------------------------------------------
(* C7 *)

\* C7: dispatching a Call whose functionId is not below the number of
\* registered methods raises nothing, runs no handler, sends no packet,
\* completes nothing and leaves the state of both endpoints as it was.
C7_UnknownFunctionIdIsIgnored ==
    [][\A e \in Endpoints :
         (/\ Dispatched(e)
          /\ last'.packet.callType = "Call"
          /\ last'.packet.functionId >= Len(callHandlers[e]))
         => /\ last'.raised = "none"
            /\ last'.invoked = <<>>
            /\ last'.sent = <<>>
            /\ last'.completed = <<>>
            /\ \A x \in Endpoints : Tables(x)' = Tables(x)
            /\ NothingSent(e)
    ]_vars

\* A Call with functionId equal to the number of declared methods has been
\* dispatched on a fully constructed endpoint.
C7_Witness ==
    /\ last.op = "inject"
    /\ last.packet.callType = "Call"
    /\ last.packet.functionId = Len(callHandlers[last.endpoint])
    /\ Len(callHandlers[last.endpoint]) = NumDecl
    /\ last.raised = "none"

-----------------------------------------------------------------------------
(* C8 *)

\* C8: dispatching a well-formed Call for a registered method whose handler is
\* not bound fails with bad_function_call, runs no handler and sends nothing;
\* a Call with an unknown functionId, by contrast, raises nothing.
C8_UnboundHandlerFails ==
    [][\A e \in Endpoints :
         (Dispatched(e) /\ last'.packet.callType = "Call") =>
            LET f == last'.packet.functionId
            IN /\ (/\ f < Len(callHandlers[e])
                   /\ remoteCallback[e][callHandlers[e][f + 1]] = NoCallback
                   /\ last'.packet.payload.shape = ArgsTuple(callHandlers[e][f + 1]))
                  => /\ last'.raised = "bad_function_call"
                     /\ last'.invoked = <<>>
                     /\ last'.sent = <<>>
               /\ f >= Len(callHandlers[e]) => last'.raised = "none"
    ]_vars

\* The receiver's loop has dispatched the sender's notifyTwo() while no
\* notifyTwo handler was bound on the receiver, and the dispatch failed.
C8_Witness ==
    /\ last.op = "deliver"
    /\ last.endpoint = "receiver"
    /\ last.packet.callType = "Call"
    /\ last.packet.functionId = functionId["receiver"][4]
    /\ remoteCallback["receiver"][4] = NoCallback
    /\ last.raised = "bad_function_call"

-----------------------------------------------------------------------------
(* C9 *)

\* C9: a dispatch that fails with bad_function_call changes no field of either
\* interface object and no completion table, and sends no packet; so every
\* call that was pending before it is pending after it.
C9_FailedDispatchChangesNothing ==
    [][\A e \in Endpoints :
         (Dispatched(e) /\ last'.raised = "bad_function_call")
         => /\ \A x \in Endpoints : Tables(x)' = Tables(x)
            /\ last'.sent = <<>>
            /\ last'.completed = <<>>
            /\ NothingSent(e)
            /\ \A x \in Endpoints : \A c \in DOMAIN futures[x] :
                  Pending(x, c) => Pending(x, c)'
    ]_vars

\* A dispatch on the receiver has failed for an unbound handler while a call
\* with a result, issued by the receiver, is pending there.
C9_Witness ==
    /\ last.op = "deliver"
    /\ last.endpoint = "receiver"
    /\ last.raised = "bad_function_call"
    /\ \E c \in DOMAIN futures["receiver"] : Pending("receiver", c)

-----------------------------------------------------------------------------
(* C10 *)

\* C10: when a round of the receive loop fails for an unbound handler, the
\* loop takes exactly the packet it dispatched: the packets queued behind it
\* stay queued, in order, and dispatching any of them has the same effect
\* after the failed round as it would have had before it.
C10_LoopContinuesAfterFailure ==
    [][\A e \in Endpoints :
         (Delivered(e) /\ last'.raised = "bad_function_call")
         => /\ dummyQueue'[LoopQueue(e)] = Tail(dummyQueue[LoopQueue(e)])
            /\ origin'[LoopQueue(e)] = Tail(origin[LoopQueue(e)])
            /\ \A i \in 2..Len(dummyQueue[LoopQueue(e)]) :
                  \A packet \in {dummyQueue[LoopQueue(e)][i]} :
                     \A org \in {origin[LoopQueue(e)][i]} :
                        Effect(e, packet, org)' = Effect(e, packet, org)
    ]_vars

\* The run of the example: notifyTwo() and then square(5) were called on the
\* sender, only square is bound on the receiver; the round for notifyTwo
\* failed and the round for square has sent the Response with 25.
C10_Witness ==
    /\ last.op = "deliver"
    /\ last.endpoint = "receiver"
    /\ last.packet.callType = "Call"
    /\ last.packet.callId = 2
    /\ callIdCounter["sender"] = 2
    /\ 1 \notin DOMAIN futures["sender"]
    /\ Bound = {<<"receiver", 5>>}
    /\ Len(last.sent) = 1
    /\ last.sent[1].callType = "Response"
    /\ last.sent[1].payload.data = <<25>>

-----------------------------------------------------------------------------
(* C11 *)

\* C11, over WideSpec: at every instant the callIds of the calls of one endpoint that were
\* sent and are not answered are pairwise distinct.
C11_OutstandingCallIdsDistinct ==
    \A i, j \in 1..Len(wideOutstanding) :
        i # j => wideOutstanding[i] # wideOutstanding[j]

-----------------------------------------------------------------------------
(* C12 *)

\* C12, over WideSpec: every value getNextCallId returns is greater than every value it
\* returned before on the same endpoint.
C12_CallIdsStrictlyIncreasing ==
    \A i, j \in 1..Len(wideMinted) :
        i < j => Less32(wideMinted[i], wideMinted[j])

-----------------------------------------------------------------------------
(* C13 *)

\* C13: dispatching a well-formed Call for a method with a result whose
\* handler is bound runs that handler once and hands exactly one packet to
\* the send hook: a Response with the callId and the functionId of the
\* inbound packet, the endpoint's instance id, and a payload holding what the
\* handler returned for the packet's arguments; the packet is the last one of
\* the endpoint's outbound queue.
C13_CallIsAnsweredWithOneResponse ==
    [][\A e \in Endpoints :
         (/\ Dispatched(e)
          /\ last'.packet.callType = "Call"
          /\ last'.packet.functionId < Len(callHandlers[e]))
         => LET m == callHandlers[e][last'.packet.functionId + 1]
                h == remoteCallback[e][m]
            IN (/\ ReturnType(m) # "void"
                /\ h # NoCallback
                /\ last'.packet.payload.shape = ArgsTuple(m))
               => /\ last'.raised = "none"
                  /\ last'.invoked = <<[method |-> m, handler |-> h,
                                        args |-> last'.packet.payload.data]>>
                  /\ Len(last'.sent) = 1
                  /\ last'.sent[1].callType = "Response"
                  /\ last'.sent[1].callId = last'.packet.callId
                  /\ last'.sent[1].functionId = last'.packet.functionId
                  /\ last'.sent[1].instanceId = instanceId[e]
                  /\ last'.sent[1].payload.shape = <<ReturnType(m)>>
                  /\ last'.sent[1].payload.data
                        = <<Apply(h, last'.packet.payload.data)>>
                  /\ dummyQueue'[instanceId[e]] # <<>>
                  /\ dummyQueue'[instanceId[e]][Len(dummyQueue'[instanceId[e]])]
                        = last'.sent[1]
    ]_vars

\* The receiver, with square bound to v + v, has dispatched the sender's second
\* call, square(5), and sent the Response with callId 2 and the value 10.
C13_Witness ==
    /\ last.op = "deliver"
    /\ last.endpoint = "receiver"
    /\ last.packet.callType = "Call"
    /\ last.packet.callId = 2
    /\ last.invoked # <<>>
    /\ last.invoked[1].handler = "twice"
    /\ Len(last.sent) = 1
    /\ last.sent[1].callId = 2
    /\ last.sent[1].payload.data = <<10>>

-----------------------------------------------------------------------------
(* C14 *)

\* This step is an invocation of a method on e: a packet whose history names
\* e as the caller that built it joins a queue.
InvokedBy(e) ==
    \E q \in InstanceIds :
        /\ Len(origin'[q]) = Len(origin[q]) + 1
        /\ origin'[q][Len(origin'[q])].by = e
        /\ origin'[q][Len(origin'[q])].served = 0

\* C14: every invocation of a method on an endpoint, void or not, increments
\* the endpoint's call-id counter by exactly one and hands exactly one packet
\* to the send hook: a Call with the method's functionId, the endpoint's
\* instance id, the incremented counter as callId and the arguments of the
\* call site; no other queue changes.
C14_InvocationSendsOneCallPacket ==
    [][\A e \in Endpoints :
         InvokedBy(e) =>
            LET q == instanceId[e]
                packet == dummyQueue'[q][Len(dummyQueue'[q])]
                org == origin'[q][Len(origin'[q])]
            IN /\ dummyQueue'[q] = Append(dummyQueue[q], packet)
               /\ \A x \in InstanceIds : x # q => dummyQueue'[x] = dummyQueue[x]
               /\ callIdCounter'[e] = callIdCounter[e] + 1
               /\ packet.callType = "Call"
               /\ packet.callId = callIdCounter'[e]
               /\ packet.functionId = functionId[e][org.method]
               /\ packet.instanceId = instanceId[e]
               /\ packet.payload.shape = ArgsTuple(org.method)
               /\ packet.payload.data = org.args
    ]_vars

\* The sender has invoked a void method and then one with a result: the two
\* Call packets are queued with callIds 1 and 2.
C14_Witness ==
    /\ callIdCounter["sender"] = 2
    /\ Len(dummyQueue[senderId]) = 2
    /\ dummyQueue[senderId][1].callId = 1
    /\ ReturnType(origin[senderId][1].method) = "void"
    /\ dummyQueue[senderId][2].callId = 2
    /\ ReturnType(origin[senderId][2].method) # "void"
    /\ DOMAIN futures["sender"] = {2}

-----------------------------------------------------------------------------
(* C15 *)

\* C15: the future a call with a result returns holds no result when the call
\* has been sent; nothing the peer dispatches changes it, so it still holds
\* none when the peer has dispatched the Call and sent the Response; it gets
\* its result only in a step in which the calling endpoint itself dispatches a
\* Response carrying the call's id.
C15_ResolvedOnlyByCallersDispatch ==
    [][\A e \in Endpoints :
         /\ InvokedBy(e) =>
               LET org == origin'[instanceId[e]][Len(origin'[instanceId[e]])]
               IN ReturnType(org.method) # "void"
                  => /\ org.call \in DOMAIN futures'[e]
                     /\ futures'[e][org.call].state = "pending"
         /\ Dispatched(Peer(e)) => futures'[e] = futures[e]
         /\ \A c \in DOMAIN futures'[e] :
               (Ready_(e, c)' /\ ~Ready_(e, c))
               => /\ Dispatched(e)
                  /\ last'.packet.callType = "Response"
                  /\ last'.packet.callId = c
    ]_vars

\* The receiver has dispatched the sender's square(5) and its Response is
\* queued for the sender, whose future is still pending.
C15_Witness ==
    /\ last.op = "deliver"
    /\ last.endpoint = "receiver"
    /\ Len(last.sent) = 1
    /\ last.sent[1].callType = "Response"
    /\ last.sent[1].payload.data = <<25>>
    /\ dummyQueue[receiverId] # <<>>
    /\ dummyQueue[receiverId][Len(dummyQueue[receiverId])] = last.sent[1]
    /\ Pending("sender", last.packet.callId)

-----------------------------------------------------------------------------
(* C16 *)

\* The Responses in every queue that answer calls of one caller are in the
\* order of those calls.
ResponsesInCallOrder ==
    \A q \in InstanceIds : \A i, j \in 1..Len(dummyQueue[q]) :
        (/\ i < j
         /\ origin[q][i].served # 0
         /\ origin[q][j].served # 0
         /\ origin[q][i].caller = origin[q][j].caller)
        => origin[q][i].call < origin[q][j].call

\* C16: a dispatch does all its work in its own step: the handler it runs is
\* run on the arguments of the packet being dispatched, the Response to a Call
\* of a bound method with a result is handed to the send hook in the same step
\* and joins the outbound queue behind everything earlier dispatches sent; a
\* packet joins a queue only in an invocation or a dispatch; so Responses
\* leave in the order their Calls were dispatched.
C16_DispatchIsSynchronousAndOrdered ==
    [][/\ \A e \in Endpoints :
            Dispatched(e) =>
               /\ dummyQueue'[instanceId[e]] = dummyQueue[instanceId[e]] \o last'.sent
               /\ Len(last'.invoked) <= 1
               /\ last'.sent # <<>> => last'.invoked # <<>>
               /\ last'.invoked # <<>> =>
                     last'.invoked[1].args = last'.packet.payload.data
               /\ (/\ last'.packet.callType = "Call"
                   /\ last'.invoked # <<>>
                   /\ ReturnType(last'.invoked[1].method) # "void")
                  => /\ Len(last'.sent) = 1
                     /\ last'.sent[1].callId = last'.packet.callId
       /\ \A q \in InstanceIds :
            Len(dummyQueue'[q]) > Len(dummyQueue[q])
            => \E e \in Endpoints :
                  instanceId[e] = q /\ (InvokedBy(e) \/ Dispatched(e))
       /\ ResponsesInCallOrder'
    ]_vars

\* The receiver has dispatched two calls of square in the order they were
\* made; the two Responses are queued in that order.
C16_Witness ==
    /\ last.op = "deliver"
    /\ last.endpoint = "receiver"
    /\ last.packet.callId = 2
    /\ Len(dummyQueue[receiverId]) = 2
    /\ dummyQueue[receiverId][1].callType = "Response"
    /\ dummyQueue[receiverId][1].callId = 1
    /\ dummyQueue[receiverId][2].callType = "Response"
    /\ dummyQueue[receiverId][2].callId = 2

-----------------------------------------------------------------------------
(* C17 *)

\* C17: binding a handler to a method of an endpoint, for the first time or
\* again, makes it the method's handler and changes nothing else: no other
\* method's handler, no functionId, no handler table, no call-id counter, no
\* promise, future or queue; and a dispatched Call of a bound method runs the
\* handler the method has at that moment, the one bound last, and no other.
C17_RebindingReplacesTheHandlerOnly ==
    [][\A e \in Endpoints :
         /\ (last'.op = "bind" /\ last'.endpoint = e) =>
               /\ remoteCallback'[e][last'.bound[1].method] = last'.bound[1].handler
               /\ \A x \in Endpoints, m \in Methods :
                     <<x, m>> # <<e, last'.bound[1].method>>
                     => remoteCallback'[x][m] = remoteCallback[x][m]
               /\ UNCHANGED <<functionId, callHandlers, resultHandlers,
                              callIdCounter, instanceId, promises, futures,
                              dummyQueue>>
         /\ (/\ Dispatched(e)
             /\ last'.packet.callType = "Call"
             /\ last'.packet.functionId < Len(callHandlers[e]))
            => LET m == callHandlers[e][last'.packet.functionId + 1]
               IN (/\ remoteCallback[e][m] # NoCallback
                   /\ last'.packet.payload.shape = ArgsTuple(m))
                  => last'.invoked = <<[method |-> m,
                                        handler |-> remoteCallback[e][m],
                                        args |-> last'.packet.payload.data]>>
    ]_vars

\* The receiver answered a first square(5) with 25 and, its handler rebound in
\* between, a second square(5) with 10.
C17_Witness ==
    /\ Len(dummyQueue[receiverId]) = 2
    /\ dummyQueue[receiverId][1].payload.data = <<25>>
    /\ dummyQueue[receiverId][2].payload.data = <<10>>
    /\ remoteCallback["receiver"][5] = "twice"
    /\ functionId["receiver"][5] = 4

-----------------------------------------------------------------------------
(* C18 *)

-----------------------------------------------------------------------------
(* C19 *)

-----------------------------------------------------------------------------
(* C20 *)

\* C20: dispatching a Response whose functionId has no entry in the
\* endpoint's resultHandlers (the id of a void method, or an id past the
\* registered range) raises nothing, runs no handler, does not invoke the
\* completion hook, sends nothing and leaves the state of both endpoints as
\* it was, a pending call with the Response's callId included.
C20_ResponseWithoutResultHandlerIsIgnored ==
    [][\A e \in Endpoints :
         (/\ Dispatched(e)
          /\ last'.packet.callType = "Response"
          /\ last'.packet.functionId \notin DOMAIN resultHandlers[e])
         => /\ last'.raised = "none"
            /\ last'.invoked = <<>>
            /\ last'.sent = <<>>
            /\ last'.completed = <<>>
            /\ hooked' = hooked
            /\ \A x \in Endpoints : Tables(x)' = Tables(x)
            /\ NothingSent(e)
    ]_vars

\* A Response carrying the functionId of the void method notifyTwo and the
\* callId of a pending call has been dispatched; the call is still pending.
C20_Witness ==
    /\ last.op = "inject"
    /\ last.packet.callType = "Response"
    /\ last.packet.functionId = functionId[last.endpoint][4]
    /\ ReturnType(4) = "void"
    /\ last.raised = "none"
    /\ Pending(last.endpoint, last.packet.callId)

-----------------------------------------------------------------------------
(* C21 *)

\* C21, over MessageSpec: in the RpcMessage variant, dispatching a well-formed
\* call of a void method that has no handler bound raises nothing, runs no
\* handler, sends nothing, completes nothing and leaves the state of both
\* endpoints as it was.
C21_UnboundVoidCallIsSkipped ==
    [][\A e \in Endpoints :
         (/\ Dispatched(e)
          /\ last'.packet.callType = "Call"
          /\ last'.packet.functionId < Len(callHandlers[e]))
         => LET m == callHandlers[e][last'.packet.functionId + 1]
            IN (/\ ReturnType(m) = "void"
                /\ remoteCallback[e][m] = NoCallback
                /\ last'.packet.payload.shape = ArgsTuple(m))
               => /\ last'.raised = "none"
                  /\ last'.invoked = <<>>
                  /\ last'.sent = <<>>
                  /\ last'.completed = <<>>
                  /\ \A x \in Endpoints : Tables(x)' = Tables(x)
                  /\ NothingSent(e)
    ]_vars

\* The receiver's loop has dispatched the sender's notifyTwo() with no
\* notifyTwo handler bound on the receiver, and nothing was raised.
C21_Witness ==
    /\ last.op = "deliver"
    /\ last.endpoint = "receiver"
    /\ last.packet.callType = "Call"
    /\ last.packet.functionId = functionId["receiver"][4]
    /\ remoteCallback["receiver"][4] = NoCallback
    /\ last.raised = "none"
    /\ last.invoked = <<>>

-----------------------------------------------------------------------------
(* C22 *)

\* C22: at every moment, and so after construction with all n methods, the
\* call table of an endpoint has an entry at every functionId below the number
\* of registered methods, the entry of the method that has that id; and its
\* resultHandlers has an entry for a functionId exactly when the method with
\* that id is registered and has a result, the entry being for that method's
\* return type.
C22_TablesMatchTheDeclarations ==
    \A e \in Endpoints :
        /\ Len(callHandlers[e]) <= NumDecl
        /\ Constructed(e) => DOMAIN callHandlers[e] = 1..NumDecl
        /\ \A f \in 0..(Len(callHandlers[e]) - 1) :
              functionId[e][callHandlers[e][f + 1]] = f
        /\ DOMAIN resultHandlers[e]
              = {functionId[e][m] : m \in {x \in 1..Len(callHandlers[e]) :
                                              ExampleInterface[x].ret # "void"}}
        /\ \A m \in 1..Len(callHandlers[e]) :
              ExampleInterface[m].ret # "void"
              => resultHandlers[e][functionId[e][m]] = ExampleInterface[m].ret

\* Both objects are constructed and in use: the sender has made a call, its
\* resultHandlers has entries for square and isOdd only.
C22_Witness ==
    /\ \A e \in Endpoints : Constructed(e)
    /\ callIdCounter["sender"] > 0
    /\ DOMAIN resultHandlers["sender"] = {4, 5}
    /\ DOMAIN resultHandlers["receiver"] = {4, 5}

-----------------------------------------------------------------------------
(* C23 *)

\* C23: dispatching a Response runs no method handler and sends no packet,
\* and dispatching a Call does not invoke the completion hook of the
\* dispatching endpoint, also for a functionId that has an entry in both
\* tables.
C23_CallAndResponseRoutingNeverCross ==
    [][\A e \in Endpoints :
         /\ (Dispatched(e) /\ last'.packet.callType = "Response")
            => /\ last'.invoked = <<>>
               /\ last'.sent = <<>>
               /\ NothingSent(e)
         /\ (Dispatched(e) /\ last'.packet.callType = "Call")
            => /\ last'.completed = <<>>
               /\ hooked' = hooked
    ]_vars

\* A Response with the functionId of square has been dispatched on an endpoint
\* on which a square handler is bound: the hook was invoked, no handler ran.
C23_Witness ==
    /\ last.op \in {"deliver", "inject"}
    /\ last.packet.callType = "Response"
    /\ last.packet.functionId = functionId[last.endpoint][5]
    /\ remoteCallback[last.endpoint][5] # NoCallback
    /\ last.completed # <<>>
    /\ last.invoked = <<>>

-----------------------------------------------------------------------------
(* C24 *)

\* C24: dispatching a Response whose functionId belongs to a method with a
\* result invokes the completion hook exactly once within that dispatch, with
\* the packet's callId and the value the packet's payload carries.
C24_ResponseInvokesTheHookOnce ==
    [][\A e \in Endpoints :
         (/\ Dispatched(e)
          /\ last'.packet.callType = "Response"
          /\ last'.packet.functionId \in DOMAIN resultHandlers[e])
         => /\ last'.completed =
                   <<[callId |-> last'.packet.callId,
                      type |-> resultHandlers[e][last'.packet.functionId],
                      value |-> last'.packet.payload.data[1]]>>
            /\ hooked'[e] =
                   Put(hooked[e], last'.packet.callId,
                       IF last'.packet.callId \in DOMAIN hooked[e]
                       THEN hooked[e][last'.packet.callId] + 1 ELSE 1)
    ]_vars

\* The Response a peer's square handler sent has been dispatched by the loop:
\* the hook ran once for its callId, with the square the payload carries.
C24_Witness ==
    /\ last.op = "deliver"
    /\ last.packet.callType = "Response"
    /\ last.packet.functionId = 4
    /\ last.packet.payload.data[1] = 25
    /\ Len(last.completed) = 1
    /\ last.completed[1].value = 25
    /\ hooked[last.endpoint][last.packet.callId] = 1

-----------------------------------------------------------------------------
(* C25 *)

\* The endpoint e has dispatched a Call whose handler dispatched a further
\* packet on e while it ran.
Reentered(e) == last'.op = "reenter" /\ last'.endpoint = e

-----------------------------------------------------------------------------
(* C26 *)

\* The call id was handed out before the first invocation of this run: the
\* counter stood at wideMinted[1] - 1 then, after that many invocations, which
\* returned 1, 2, ... up to it.
IssuedBefore(id) == id # Wide(0, 0) /\ Less32(id, wideMinted[1])

\* Two invocations overlapped and sent their packets under the same call id.
RacingInvocationsShareACallId ==
    /\ threads.overlapped
    /\ \E i, j \in 1..Len(wideMinted) : i < j /\ wideMinted[i] = wideMinted[j]

\* C26, over RaceSpec: as long as no two invocations on the endpoint have
\* overlapped (they were serialized), no invocation obtains a call id that
\* another invocation on that endpoint obtained.
C26_SerializedInvocationsGetDistinctCallIds ==
    ~threads.overlapped =>
        \A j \in 1..Len(wideMinted) :
            /\ \A i \in 1..(j - 1) : wideMinted[i] # wideMinted[j]
            /\ j > 1 => ~IssuedBefore(wideMinted[j])

-----------------------------------------------------------------------------
(* C27 *)

\* C27: dispatching a Call of a method with a result creates, replaces and
\* resolves no entry of the dispatching endpoint's pending-call table
\* (promises), and the futures of the calls that endpoint itself has
\* outstanding stay as they are.
C27_ResponseSendLeavesPendingCallsAlone ==
    [][\A e \in Endpoints :
         (/\ Dispatched(e)
          /\ last'.packet.callType = "Call"
          /\ FindCallHandler(e, last'.packet.functionId) # 0
          /\ ReturnType(FindCallHandler(e, last'.packet.functionId)) # "void")
         => /\ promises'[e] = promises[e]
            /\ futures'[e] = futures[e]
    ]_vars

-----------------------------------------------------------------------------
(* C28 *)

\* The state LiveSpec starts in.
BothBound ==
    /\ Ready
    /\ remoteCallback["sender"][5] = "square"
    /\ remoteCallback["receiver"][5] = "twice"
    /\ callIdCounter = [e \in Endpoints |-> 0]

\* C28, over LiveSpec: with square bound on both endpoints, both calling the
\* other, and every sent packet dispatched in the end, every call is in the
\* end resolved on the endpoint that issued it, with the result of the peer's
\* handler for its own argument.
C28_EveryCallIsEventuallyResolved ==
    \A e \in Endpoints : \A c \in 1..MaxLiveCalls :
        (c \in DOMAIN futures[e])
        ~> (/\ c \in DOMAIN futures[e]
            /\ futures[e][c].state = "ready"
            /\ futures[e][c].value = Apply(remoteCallback[Peer(e)][5], <<5>>))

-----------------------------------------------------------------------------
(* C29 *)

\* The queue q as the step leaves it when the step sends nothing into it.
Unsent(q) ==
    IF \E e \in Endpoints : Delivered(e) /\ q = LoopQueue(e)
    THEN Tail(dummyQueue[q])
    ELSE dummyQueue[q]

\* C29: a dispatch of a Call of a void method sends no packet; a dispatch
\* sends one Response exactly when it is of a Call of a method with a result
\* whose handler returned normally, and sends nothing otherwise; no other
\* operation sends a Response.  So the Responses an endpoint has sent are as
\* many as those dispatches.
C29_OneResponsePerAnsweredCall ==
    [][/\ \A e \in Endpoints :
            Dispatched(e) =>
            LET packet == last'.packet
                m == IF packet.callType = "Call"
                     THEN FindCallHandler(e, packet.functionId) ELSE 0
                answered == /\ m # 0
                            /\ ReturnType(m) # "void"
                            /\ last'.raised = "none"
            IN /\ (m # 0 /\ ReturnType(m) = "void")
                  => last'.sent = <<>> /\ NothingSent(e)
               /\ answered
                  => /\ Len(last'.sent) = 1
                     /\ last'.sent[1].callType = "Response"
                     /\ \A q \in InstanceIds :
                           dummyQueue'[q] = IF q = instanceId[e]
                                            THEN Append(Unsent(q), last'.sent[1])
                                            ELSE Unsent(q)
               /\ ~answered => last'.sent = <<>> /\ NothingSent(e)
       /\ (~\E e \in Endpoints : Dispatched(e))
          => \A q \in InstanceIds :
                /\ Len(dummyQueue'[q]) >= Len(dummyQueue[q])
                /\ \A i \in 1..Len(dummyQueue'[q]) :
                      IF i <= Len(dummyQueue[q])
                      THEN dummyQueue'[q][i] = dummyQueue[q][i]
                      ELSE dummyQueue'[q][i].callType = "Call"
    ]_vars

\* A Call of the void addAccount was dispatched by an endpoint that has a
\* handler bound for it: the handler ran and nothing was sent.
C29_Witness ==
    /\ last.op = "deliver"
    /\ last.packet.callType = "Call"
    /\ last.packet.functionId = 0
    /\ last.raised = "none"
    /\ Len(last.invoked) = 1
    /\ last.sent = <<>>
    /\ \A q \in InstanceIds : dummyQueue[q] = <<>>

-----------------------------------------------------------------------------
(* C30 *)

\* C30: a dispatch, of a Call (the Response it sends included) or of a
\* Response, leaves every callIdCounter as it was; a counter changes only in
\* an invocation made on its own endpoint, by one.
C30_DispatchLeavesTheCounterAlone ==
    [][\A e \in Endpoints :
         /\ (\E d \in Endpoints : Dispatched(d))
            => callIdCounter'[e] = callIdCounter[e]
         /\ callIdCounter'[e] # callIdCounter[e]
            => /\ InvokedBy(e)
               /\ last'.op = "config"
               /\ callIdCounter'[e] = callIdCounter[e] + 1
    ]_vars

\* The receiver dispatched a Call of square and sent its Response while the
\* sender's counter stood at 1 and its own at 0, where it still stands.
C30_Witness ==
    /\ last.op = "deliver"
    /\ last.endpoint = "receiver"
    /\ last.packet.callType = "Call"
    /\ Len(last.sent) = 1
    /\ last.sent[1].callType = "Response"
    /\ last.sent[1].callId = 1
    /\ callIdCounter["receiver"] = 0
    /\ callIdCounter["sender"] = 1

-----------------------------------------------------------------------------
(* C31 *)

\* C31: once an interface object is constructed, no invocation, binding or
\* dispatch (answered, ignored or failing) changes a method's functionId or
\* adds, removes or replaces an entry of its call table or of its
\* response-handler table.
C31_TablesAreFrozenAfterConstruction ==
    [][\A e \in Endpoints :
         Constructed(e)
         => /\ functionId'[e] = functionId[e]
            /\ callHandlers'[e] = callHandlers[e]
            /\ resultHandlers'[e] = resultHandlers[e]
    ]_vars

\* After an invocation and a binding, a dispatch failed on an unbound handler
\* and the tables are those of construction.
C31_Witness ==
    /\ last.op = "deliver"
    /\ last.raised = "bad_function_call"
    /\ Cardinality(Bound) >= 1
    /\ \A e \in Endpoints :
          /\ callHandlers[e] = [m \in Methods |-> m]
          /\ functionId[e] = [m \in Methods |-> m - 1]
          /\ DOMAIN resultHandlers[e] = {4, 5}

-----------------------------------------------------------------------------
(* C32 *)

-----------------------------------------------------------------------------
(* C33 *)

\* The last operation was a loop's dispatch of the peer's Call, under call id
\* c, of a method with a result, and it failed on the unbound handler.
FailedUnbound(e, c) ==
    /\ last.op = "deliver"
    /\ last.endpoint = Peer(e)
    /\ last.raised = "bad_function_call"
    /\ last.packet.callType = "Call"
    /\ last.packet.callId = c
    /\ FindCallHandler(Peer(e), last.packet.functionId) # 0
    /\ ReturnType(FindCallHandler(Peer(e), last.packet.functionId)) # "void"

\* The call that endpoint e made under call id c is pending and no packet of
\* it is left in a queue: its Call was dispatched and no Response was sent.
Unanswered(e, c) ==
    /\ Pending(e, c)
    /\ \A q \in InstanceIds : \A k \in 1..Len(origin[q]) :
          ~(origin[q][k].caller = e /\ origin[q][k].call = c)

\* C33: when a Call of a method with a result hits an unbound handler, the
\* dispatch sends no packet and leaves the caller's future for that call id
\* pending, and a pending call whose Call was dispatched without a Response
\* stays pending in every later step (as long as the transport makes up no
\* packet of its own).
C33_UnansweredCallStaysPending ==
    [][\A e \in Endpoints : \A c \in DOMAIN futures[e] :
         /\ (/\ Delivered(Peer(e))
             /\ Taken(Peer(e)).caller = e
             /\ FailedUnbound(e, c)')
            => /\ last'.sent = <<>>
               /\ NothingSent(Peer(e))
               /\ Pending(e, c) => futures'[e][c].state = "pending"
         /\ (Unanswered(e, c) /\ injected' = 0)
            => futures'[e][c].state = "pending"
    ]_vars

-----------------------------------------------------------------------------
(* C34 *)

\* Values of instanceId a packet can carry: the two endpoints' ids and the
\* largest uint16_t.
StampedIds == InstanceIds \cup {FunctionIdWidth - 1}

\* C34: what a dispatch raises, runs, sends and completes, and the state it
\* leaves, are those of the dispatch, from the same state, of the packet that
\* differs in instanceId only, whatever that id is; setInstanceId changes
\* instanceId only, and every packet an endpoint sends carries the
\* instanceId the endpoint has at that moment.
C34_DispatchIgnoresInstanceId ==
    [][\A e \in Endpoints :
         /\ Dispatched(e)
            => \A packet \in {last'.packet} : \A i \in StampedIds :
                 \A other \in {Dispatch(e, [packet EXCEPT !.instanceId = i],
                                         IF last'.op = "deliver"
                                         THEN Taken(e) ELSE Forged)} :
                 \A left \in {IF last'.op = "deliver"
                              THEN LoopTakes(LoopQueue(e), other.raised, other.st)
                              ELSE other.st} :
                    /\ last'.raised = other.raised
                    /\ last'.invoked = other.invoked
                    /\ last'.sent = other.sent
                    /\ last'.completed = other.completed
                    /\ callIdCounter'[e] = left.counter
                    /\ promises'[e] = left.promises
                    /\ futures'[e] = left.futures
                    /\ hooked'[e] = left.hooked
                    /\ dummyQueue' = left.queue
                    /\ \A k \in 1..Len(last'.sent) :
                          last'.sent[k].instanceId = instanceId[e]
         /\ instanceId'[e] # instanceId[e]
            => UNCHANGED <<callHandlers, resultHandlers, functionId,
                           remoteCallback, callIdCounter, promises, futures,
                           dummyQueue, origin, injected, hooked>>
         /\ InvokedBy(e)
            => /\ dummyQueue'[instanceId[e]] # <<>>
               /\ dummyQueue'[instanceId[e]][Len(dummyQueue'[instanceId[e]])].instanceId
                     = instanceId[e]
    ]_vars

\* The receiver, whose instanceId is 1, dispatched a Call stamped with
\* instanceId 0, ran its square handler and sent a Response stamped with 1.
C34_Witness ==
    /\ last.op = "deliver"
    /\ last.endpoint = "receiver"
    /\ instanceId["receiver"] = 1
    /\ last.packet.instanceId = 0
    /\ last.packet.callType = "Call"
    /\ Len(last.invoked) = 1
    /\ Len(last.sent) = 1
    /\ last.sent[1].instanceId = 1

====
